---- MODULE Spec2Model ----
(***************************************************************************)
(* org-bridge: the markup composition and file insertion engine of         *)
(* server/org_parser.py and the create_todo request handler of             *)
(* server/main.py.                                                         *)
(*                                                                         *)
(* A text (a Python str) is a sequence of symbols.  A symbol is one of the *)
(* characters the code inspects ("*", ":", " ", "\n", ...) or a run of     *)
(* letters or digits that the code never looks inside ("TODO", "Pay").     *)
(* None and the empty string are both the empty sequence wherever the code *)
(* only tests truthiness.                                                  *)
(***************************************************************************)
EXTENDS Integers, Sequences, FiniteSets, TLC

VARIABLES
    dir_exists,   \* whether ORG_FILES_DIR exists
    file_exists,  \* whether the target org file exists
    content,      \* the text of the target org file
    log,          \* one record per request handled, oldest first
    inflight      \* per concurrent call: what it read and how far it got

vars == <<dir_exists, file_exists, content, log, inflight>>

-----------------------------------------------------------------------------
(* Python str and list primitives.                                         *)

NL == "\n"
SP == " "
STAR == "*"
COLON == ":"

\* The characters str.strip() and str.split() treat as whitespace.
Whitespace == {SP, NL}

RECURSIVE LStripSet(_, _)
LStripSet(s, cs) ==
    IF s # <<>> /\ Head(s) \in cs THEN LStripSet(Tail(s), cs) ELSE s

RECURSIVE RStripSet(_, _)
RStripSet(s, cs) ==
    IF s # <<>> /\ s[Len(s)] \in cs
    THEN RStripSet(SubSeq(s, 1, Len(s) - 1), cs)
    ELSE s

\* s.strip()
Strip(s) == RStripSet(LStripSet(s, Whitespace), Whitespace)

\* s.lstrip('*')
LStripStars(s) == LStripSet(s, {STAR})

\* s.count(c) for a one-character c
Count(s, c) == Cardinality({i \in 1..Len(s) : s[i] = c})

\* c in s
Contains(s, c) == \E i \in 1..Len(s) : s[i] = c

\* s.startswith(p) and s.endswith(p)
StartsWith(s, p) == Len(s) >= Len(p) /\ SubSeq(s, 1, Len(p)) = p
EndsWith(s, p) ==
    Len(s) >= Len(p) /\ SubSeq(s, Len(s) - Len(p) + 1, Len(s)) = p

\* sep.join(parts)
RECURSIVE Join(_, _)
Join(sep, parts) ==
    IF parts = <<>> THEN <<>>
    ELSE IF Len(parts) = 1 THEN parts[1]
    ELSE parts[1] \o sep \o Join(sep, Tail(parts))

\* s.split(): the maximal runs of non-whitespace symbols
RECURSIVE SplitWs(_, _)
SplitWs(s, word) ==
    IF s = <<>> THEN (IF word = <<>> THEN <<>> ELSE <<word>>)
    ELSE IF Head(s) \in Whitespace
         THEN (IF word = <<>> THEN <<>> ELSE <<word>>) \o SplitWs(Tail(s), <<>>)
         ELSE SplitWs(Tail(s), Append(word, Head(s)))

Split(s) == SplitWs(s, <<>>)

\* s.split('\n'): always at least one piece
RECURSIVE SplitNLAcc(_, _)
SplitNLAcc(s, piece) ==
    IF s = <<>> THEN <<piece>>
    ELSE IF Head(s) = NL THEN <<piece>> \o SplitNLAcc(Tail(s), <<>>)
    ELSE SplitNLAcc(Tail(s), Append(piece, Head(s)))

SplitNL(s) == SplitNLAcc(s, <<>>)

\* f.readlines(): the lines with their line ends kept; no piece for an
\* empty remainder
RECURSIVE ReadLinesAcc(_, _)
ReadLinesAcc(s, piece) ==
    IF s = <<>> THEN (IF piece = <<>> THEN <<>> ELSE <<piece>>)
    ELSE IF Head(s) = NL
         THEN <<Append(piece, NL)>> \o ReadLinesAcc(Tail(s), <<>>)
         ELSE ReadLinesAcc(Tail(s), Append(piece, Head(s)))

ReadLines(s) == ReadLinesAcc(s, <<>>)

\* f.writelines(lines): the concatenation of the lines
RECURSIVE WriteLines(_)
WriteLines(lines) ==
    IF lines = <<>> THEN <<>> ELSE Head(lines) \o WriteLines(Tail(lines))

\* '*' * n
RECURSIVE Stars(_)
Stars(n) == IF n = 0 THEN <<>> ELSE <<STAR>> \o Stars(n - 1)

-----------------------------------------------------------------------------------------------------------------------------------------------------
(* find_heading_insertion_point                                            *)

\* The tag removal of lines 105-114: the words up to the last one without
\* a colon, joined by single spaces; "skip" (the continue of line 114) when
\* every word holds a colon.
RECURSIVE LastPlainWord(_, _)
LastPlainWord(words, j) ==
    IF j = 0 THEN 0
    ELSE IF ~Contains(words[j], COLON) THEN j
    ELSE LastPlainWord(words, j - 1)

KeepWords(words, j) ==
    IF j = 0 THEN [skip |-> TRUE, text |-> <<>>]
    ELSE [skip |-> FALSE, text |-> Join(<<SP>>, SubSeq(words, 1, j))]

RemoveTags(words) == KeepWords(words, LastPlainWord(words, Len(words)))

TagsRemoved(heading_text) ==
    IF Contains(heading_text, COLON) /\ EndsWith(heading_text, <<COLON>>)
    THEN RemoveTags(Split(heading_text))
    ELSE [skip |-> FALSE, text |-> heading_text]

\* Lines 102-114, on a stripped line
HeadingText(line) == TagsRemoved(Strip(LStripStars(line)))

\* heading_level = line.count('*')
HeadingLevel(line) == Count(line, STAR)

\* Line 127-131, on a stripped line
EndsSection(next_line, heading_level) ==
    StartsWith(next_line, <<STAR>>) /\ HeadingLevel(next_line) <= heading_level

\* The inner loop of lines 123-135, from 1-based line j.  The value is
\* Python's 0-based insertion index.
RECURSIVE ScanForEnd(_, _, _)
ScanForEnd(lines, j, heading_level) ==
    IF j > Len(lines) THEN Len(lines)
    ELSE IF EndsSection(Strip(lines[j]), heading_level) THEN j - 1
    ELSE ScanForEnd(lines, j + 1, heading_level)

TextMatches(h, target) == ~h.skip /\ h.text = target

\* Lines 100-117, on a stripped line
LineMatches(line, target) ==
    /\ StartsWith(line, <<STAR>>) /\ Count(line, STAR) >= 1
    /\ TextMatches(HeadingText(line), target)

Found(lines, i, heading_level) ==
    [found |-> TRUE, index |-> ScanForEnd(lines, i + 1, heading_level),
     level |-> heading_level]

\* The outer loop of lines 96-138, from 1-based line i
RECURSIVE FindFrom(_, _, _)
FindFrom(lines, target, i) ==
    IF i > Len(lines) THEN [found |-> FALSE, index |-> 0, level |-> 0]
    ELSE IF LineMatches(Strip(lines[i]), target)
    THEN Found(lines, i, HeadingLevel(Strip(lines[i])))
    ELSE FindFrom(lines, target, i + 1)

find_heading_insertion_point(lines, target_heading) ==
    FindFrom(lines, Strip(target_heading), 1)

-----
(* build_repeat_suffix and format_org_timestamp                            *)

\* unit_map.get(repeat_unit, "d")
UnitAbbrev(repeat_unit) ==
    CASE repeat_unit = "hours" -> "h"
      [] repeat_unit = "days" -> "d"
      [] repeat_unit = "weeks" -> "w"
      [] repeat_unit = "months" -> "m"
      [] repeat_unit = "years" -> "y"
      [] OTHER -> "d"

\* type_map.get(repeat_type, "+")
TypePrefix(repeat_type) ==
    CASE repeat_type = "standard" -> <<"+">>
      [] repeat_type = "from_completion" -> <<".", "+">>
      [] repeat_type = "catch_up" -> <<"+", "+">>
      [] OTHER -> <<"+">>

\* The decimal text of a small positive integer, as an f-string renders it
Digits == <<"1", "2", "3", "4", "5", "6", "7", "8", "9">>

build_repeat_suffix(repeat_every, repeat_unit, repeat_type) ==
    TypePrefix(repeat_type) \o <<Digits[repeat_every], UnitAbbrev(repeat_unit)>>

\* datetime.fromisoformat on <<date>> or <<date, "T", hh, ":", mm, ...>>:
\* a date alone is midnight; seconds and any zone suffix are not rendered.
ParseIso(iso) ==
    IF Len(iso) >= 5 /\ iso[2] = "T"
    THEN [date |-> iso[1], hour |-> iso[3], minute |-> iso[5]]
    ELSE [date |-> iso[1], hour |-> "00", minute |-> "00"]

\* repeat_every 0 and the empty unit or type stand for None: all are falsy.
format_org_timestamp(iso, include_time, repeat_every, repeat_unit, repeat_type) ==
    LET dt == ParseIso(iso)
        base == IF include_time
                THEN <<dt.date, SP, dt.hour, COLON, dt.minute>>
                ELSE <<dt.date>>
        timestamp ==
            IF repeat_every # 0 /\ repeat_unit # "" /\ repeat_type # ""
            THEN base \o <<SP>>
                      \o build_repeat_suffix(repeat_every, repeat_unit, repeat_type)
            ELSE base
    IN  <<"<">> \o timestamp \o <<">">>

-----------------------------------------------------------------------------
(* The entry renderer of append_todo_to_file (lines 185-264)               *)

\* str.upper() on one symbol
Upper(c) ==
    CASE c = "id" -> "ID"
      [] c = "Id" -> "ID"
      [] c = "category" -> "CATEGORY"
      [] c = "effort" -> "EFFORT"
      [] OTHER -> c

UpperText(k) == [i \in 1..Len(k) |-> Upper(k[i])]

\* A dict is the sequence of its <<key, value>> items in insertion order.
\* d[k] = v: in place when the key is there, appended when it is not.
DictSet(d, k, v) ==
    IF \E i \in 1..Len(d) : d[i][1] = k
    THEN [i \in 1..Len(d) |-> IF d[i][1] = k THEN <<k, v>> ELSE d[i]]
    ELSE Append(d, <<k, v>>)

\* {k.upper(): v for k, v in properties.items()}
RECURSIVE UppercasedFrom(_, _)
UppercasedFrom(items, acc) ==
    IF items = <<>> THEN acc
    ELSE UppercasedFrom(Tail(items),
                        DictSet(acc, UpperText(Head(items)[1]), Head(items)[2]))

Uppercased(d) == UppercasedFrom(d, <<>>)

\* properties after lines 242-247: a fresh dict when the argument is None
\* or empty, else the caller's dict itself, with "ID" set in it.
PropertiesWithId(properties, generated_uuid) ==
    DictSet(IF properties.none \/ properties.items = <<>>
            THEN <<>> ELSE properties.items,
            <<"ID">>, generated_uuid)

\* The caller's dict object after the call: the assignment of line 247
\* writes into it unless line 243 rebound the name to a fresh dict.
CallerProperties(properties, generated_uuid) ==
    IF properties.none \/ properties.items = <<>>
    THEN properties
    ELSE [none |-> FALSE,
          items |-> DictSet(properties.items, <<"ID">>, generated_uuid)]

\* ":" + ":".join(tags) + ":"
TagString(tags) == <<COLON>> \o Join(<<COLON>>, tags) \o <<COLON>>

\* The todo line: " ".join(todo_parts) of lines 188-202 and 291-305
TodoLine(markers, req) ==
    Join(<<SP>>,
         <<markers \o <<SP>> \o req.state>>
         \o (IF req.priority # <<>>
             THEN << <<"[", "#">> \o req.priority \o <<"]">> >> ELSE <<>>)
         \o <<req.title>>
         \o (IF req.tags # <<>> THEN <<TagString(req.tags)>> ELSE <<>>))

\* The scheduling line with the recurrence on every timestamp
SchedulingLinesAllRecurring(req) ==
    LET ts(iso, include_time) ==
            IF req.is_recurring
            THEN format_org_timestamp(iso, include_time, req.repeat_every,
                                      req.repeat_unit, req.repeat_type)
            ELSE format_org_timestamp(iso, include_time, 0, "", "")
    IN  IF req.scheduled # <<>> /\ req.deadline # <<>>
        THEN << <<"SCHEDULED", COLON, SP>>
                \o ts(req.scheduled, req.include_scheduled_time)
                \o <<SP, "DEADLINE", COLON, SP>>
                \o ts(req.deadline, req.include_deadline_time) >>
        ELSE IF req.scheduled # <<>>
        THEN << <<"SCHEDULED", COLON, SP>>
                \o ts(req.scheduled, req.include_scheduled_time) >>
        ELSE IF req.deadline # <<>>
        THEN << <<"DEADLINE", COLON, SP>>
                \o ts(req.deadline, req.include_deadline_time) >>
        ELSE <<>>

\* Lines 211-239: the scheduling line, if any
SchedulingLines(req) ==
    LET add_recurring_to_scheduled ==
            req.is_recurring /\ req.recurring_field = "scheduled"
        add_recurring_to_deadline ==
            req.is_recurring /\ req.recurring_field = "deadline"
        scheduled_timestamp ==
            IF req.scheduled = <<>> THEN <<>>
            ELSE IF add_recurring_to_scheduled
            THEN format_org_timestamp(req.scheduled, req.include_scheduled_time,
                     req.repeat_every, req.repeat_unit, req.repeat_type)
            ELSE format_org_timestamp(req.scheduled, req.include_scheduled_time,
                     0, "", "")
        deadline_timestamp ==
            IF req.deadline = <<>> THEN <<>>
            ELSE IF add_recurring_to_deadline
            THEN format_org_timestamp(req.deadline, req.include_deadline_time,
                     req.repeat_every, req.repeat_unit, req.repeat_type)
            ELSE format_org_timestamp(req.deadline, req.include_deadline_time,
                     0, "", "")
    IN  IF scheduled_timestamp # <<>> /\ deadline_timestamp # <<>>
        THEN << <<"SCHEDULED", COLON, SP>> \o scheduled_timestamp
                \o <<SP, "DEADLINE", COLON, SP>> \o deadline_timestamp >>
        ELSE IF scheduled_timestamp # <<>>
        THEN << <<"SCHEDULED", COLON, SP>> \o scheduled_timestamp >>
        ELSE IF deadline_timestamp # <<>>
        THEN << <<"DEADLINE", COLON, SP>> \o deadline_timestamp >>
        ELSE <<>>

\* Lines 250-255: the property drawer
DrawerOf(uppercased_properties) ==
    << <<COLON, "PROPERTIES", COLON>> >>
    \o [i \in 1..Len(uppercased_properties) |->
           <<COLON>> \o uppercased_properties[i][1] \o <<COLON, SP>>
           \o uppercased_properties[i][2]]
    \o << <<COLON, "END", COLON>> >>

DrawerLines(properties, generated_uuid) ==
    DrawerOf(Uppercased(PropertiesWithId(properties, generated_uuid)))

AdditionalLines(req, generated_uuid) ==
    SchedulingLines(req) \o DrawerLines(req.properties, generated_uuid)

\* Lines 257-264 and 307-314: line, additional lines, body
EntryBlock(first_line, additional_lines, body) ==
    first_line
    \o (IF additional_lines # <<>>
        THEN <<NL>> \o Join(<<NL>>, additional_lines) ELSE <<>>)
    \o (IF body # <<>> THEN <<NL, NL>> \o Strip(body) ELSE <<>>)

EntryText(markers, req, generated_uuid) ==
    EntryBlock(TodoLine(markers, req), AdditionalLines(req, generated_uuid),
               req.body)

-----------------------------------------------------------------------------
(* The file inserter of append_todo_to_file (lines 266-413)                *)

\* Lines 322-326 and 329-333
NeedBlankBefore(lines, insertion_point) ==
    ~(insertion_point > 0 /\ Strip(lines[insertion_point]) = <<>>)

NeedBlankAfter(lines, insertion_point) ==
    ~(insertion_point < Len(lines) /\ Strip(lines[insertion_point + 1]) = <<>>)

\* Splice with the line at the insertion point left out
SpliceDropsLine(lines, insertion_point, todo_lines, need_blank_before, need_blank_after) ==
    SubSeq(lines, 1, insertion_point)
    \o (IF need_blank_before THEN << <<NL>> >> ELSE <<>>)
    \o [i \in 1..Len(todo_lines) |-> Append(todo_lines[i], NL)]
    \o (IF need_blank_after THEN << <<NL>> >> ELSE <<>>)
    \o SubSeq(lines, insertion_point + 2, Len(lines))

\* Lines 336-350: blank line before, the entry's lines, blank line after
Splice(lines, insertion_point, todo_lines, need_blank_before, need_blank_after) ==
    SubSeq(lines, 1, insertion_point)
    \o (IF need_blank_before THEN << <<NL>> >> ELSE <<>>)
    \o [i \in 1..Len(todo_lines) |-> Append(todo_lines[i], NL)]
    \o (IF need_blank_after THEN << <<NL>> >> ELSE <<>>)
    \o SubSeq(lines, insertion_point + 1, Len(lines))

\* Lines 316-354
InsertUnderHeading(lines, insertion_point, corrected_todo_text) ==
    Splice(lines, insertion_point, SplitNL(corrected_todo_text),
           NeedBlankBefore(lines, insertion_point),
           NeedBlankAfter(lines, insertion_point))

\* Lines 356-377: the block written when the heading is not found
NewHeadingBlock(req, additional_lines) ==
    <<STAR, SP>> \o req.heading \o <<NL, NL, STAR, STAR, SP>> \o req.state
    \o (IF req.priority # <<>>
        THEN <<SP, "[", "#">> \o req.priority \o <<"]">> ELSE <<>>)
    \o <<SP>> \o req.title
    \o (IF req.tags # <<>> THEN <<SP>> \o TagString(req.tags) ELSE <<>>)
    \o (IF additional_lines # <<>>
        THEN <<NL>> \o Join(<<NL>>, additional_lines) ELSE <<>>)
    \o (IF req.body # <<>> THEN <<NL, NL>> \o Strip(req.body) ELSE <<>>)

\* NewHeadingText without the drawer: the scheduling line only
NewHeadingTextWithoutDrawer(req, generated_uuid) ==
    NewHeadingBlock(req, SchedulingLines(req))

NewHeadingText(req, generated_uuid) ==
    NewHeadingBlock(req, AdditionalLines(req, generated_uuid))

\* Lines 385-411: plain append with its spacing decision
PlainAppendContent(exists, existing_content, todo_text) ==
    IF exists /\ Strip(existing_content) # <<>>
    THEN IF EndsWith(existing_content, <<NL, NL>>)
         THEN existing_content \o todo_text \o <<NL>>
         ELSE IF EndsWith(existing_content, <<NL>>)
         THEN existing_content \o <<NL>> \o todo_text \o <<NL>>
         ELSE existing_content \o <<NL, NL>> \o todo_text \o <<NL>>
    ELSE todo_text \o <<NL>>

\* HeadingModeContent with the new heading written over the file, not
\* appended to it
HeadingModeContentTruncating(lines, result, existing_content, req, generated_uuid) ==
    IF result.found
    THEN WriteLines(InsertUnderHeading(lines, result.index,
             EntryText(Stars(result.level + 1), req, generated_uuid)))
    ELSE <<NL>> \o NewHeadingText(req, generated_uuid) \o <<NL>>

\* Lines 284-381: the file after a call with a heading, given the result
\* of find_heading_insertion_point
HeadingModeContent(lines, result, existing_content, req, generated_uuid) ==
    IF result.found
    THEN WriteLines(InsertUnderHeading(lines, result.index,
             EntryText(Stars(result.level + 1), req, generated_uuid)))
    ELSE existing_content \o <<NL>> \o NewHeadingText(req, generated_uuid)
         \o <<NL>>

\* Lines 273-411: the file after the call and the branch taken
Filed(lines, result, existing_content, req, generated_uuid) ==
    [content |-> HeadingModeContent(lines, result, existing_content, req,
                                    generated_uuid),
     mode |-> IF result.found THEN "found" ELSE "created",
     result |-> result]

FileAfter(exists, existing_content, lines, req, generated_uuid) ==
    IF req.heading # <<>>
    THEN Filed(lines, find_heading_insertion_point(lines, req.heading),
               existing_content, req, generated_uuid)
    ELSE [content |-> PlainAppendContent(exists, existing_content,
                          EntryText(<<STAR>>, req, generated_uuid)),
          mode |-> "plain",
          result |-> [found |-> FALSE, index |-> 0, level |-> 0]]

\* The whole call: the file afterwards (and the branch that wrote it), the
\* pair returned at line 413, and the caller's property map afterwards.
\* An absent file reads as no lines and appending to it starts from nothing.
append_todo_to_file(exists, existing_content, req, generated_uuid) ==
    [file |-> FileAfter(exists, IF exists THEN existing_content ELSE <<>>,
                        IF exists THEN ReadLines(existing_content) ELSE <<>>,
                        req, generated_uuid),
     todo_text |-> EntryText(<<STAR>>, req, generated_uuid),
     generated_uuid |-> generated_uuid,
     properties |-> CallerProperties(req.properties, generated_uuid)]

-----
(* Inputs                                                                  *)

MaxCalls == 2
MaxRenderCalls == 1

\* uuid.uuid4(): a value no earlier call returned
Uuids == <<"UUID-1", "UUID-2", "UUID-3", "UUID-4", "UUID-5">>
FreshUuid(n) == <<Uuids[n + 1]>>

NoProperties == [none |-> TRUE, items |-> <<>>]
Dict(items) == [none |-> FALSE, items |-> items]

BaseRequest ==
    [title |-> <<"Pay", SP, "rent">>, state |-> <<"TODO">>,
     priority |-> <<>>, tags |-> <<>>,
     scheduled |-> <<>>, deadline |-> <<>>,
     include_scheduled_time |-> FALSE, include_deadline_time |-> FALSE,
     is_recurring |-> FALSE, recurring_field |-> "",
     repeat_every |-> 0, repeat_unit |-> "", repeat_type |-> "",
     properties |-> NoProperties, body |-> <<>>, heading |-> <<>>]

OldEntry == <<STAR, SP, "TODO", SP, "old">>
HeadingH == <<"H">>
HeadingStar == <<"a", STAR, "b">>
HeadingColon == <<"N", COLON>>

Headings == {<<>>, HeadingH, HeadingStar, HeadingColon}

Bodies == {<<>>, <<SP, "note", NL>>}

\* The target file before the first request: absent, or one of these texts
InitialContents ==
    { <<>>,
      <<SP, NL>>,
      OldEntry,
      OldEntry \o <<NL>>,
      OldEntry \o <<NL, NL>>,
      OldEntry \o <<NL, NL, NL>>,
      <<STAR, SP>> \o HeadingH \o <<NL>>,
      <<STAR, SP>> \o HeadingH \o <<NL, STAR, STAR, SP, "sub", NL, STAR, SP>>
          \o HeadingStar \o <<NL>>,
      <<STAR, STAR, SP>> \o HeadingH \o <<SP, COLON, "tag", COLON, NL,
        "text", NL, NL, STAR, SP, "Other", NL>>,
      <<STAR, SP, "Top", NL, STAR, STAR, SP>> \o HeadingStar
          \o <<NL, STAR, STAR, SP, "next">>,
      <<STAR, SP>> \o HeadingH,
      <<STAR, SP>> \o HeadingH \o <<NL, NL, NL, STAR, SP, "Other", NL>> }

\* Requests that vary where and how the entry is filed
FileRequests ==
    { [BaseRequest EXCEPT !.heading = h, !.body = b] :
        h \in Headings, b \in Bodies }

Date1 == <<"2025-01-20", "T", "14", COLON, "30", COLON, "00">>
Date2 == <<"2025-02-03">>

\* <<is_recurring, recurring_field, repeat_every, repeat_unit, repeat_type>>
Recurrences ==
    { <<FALSE, "", 0, "", "">>,
      <<TRUE, "scheduled", 1, "weeks", "standard">>,
      <<TRUE, "deadline", 2, "weeks", "from_completion">>,
      <<TRUE, "deadline", 3, "fortnights", "sometimes">>,
      <<TRUE, "scheduled", 2, "months", "catch_up">>,
      <<FALSE, "scheduled", 2, "days", "standard">>,
      <<TRUE, "", 2, "days", "standard">>,
      <<TRUE, "deadline", 0, "days", "standard">>,
      <<TRUE, "scheduled", 2, "", "standard">> }

\* Requests that vary the scheduling line
TimeRequests ==
    { [BaseRequest EXCEPT !.scheduled = sd[1], !.deadline = sd[2],
                          !.include_scheduled_time = sd[3],
                          !.include_deadline_time = ~sd[3],
                          !.is_recurring = r[1], !.recurring_field = r[2],
                          !.repeat_every = r[3], !.repeat_unit = r[4],
                          !.repeat_type = r[5], !.heading = h] :
        sd \in { <<Date1, <<>>, TRUE>>, <<<<>>, Date2, TRUE>>,
                 <<Date1, Date2, TRUE>>, <<Date2, Date1, FALSE>> },
        r \in Recurrences, h \in {<<>>, HeadingH} }

PropertyMaps ==
    { NoProperties,
      Dict(<<>>),
      Dict(<< <<<<"category">>, <<"work">>>> >>),
      Dict(<< <<<<"id">>, <<"mine">>>> >>),
      Dict(<< <<<<"ID">>, <<"mine">>>>, <<<<"EFFORT">>, <<"2">>>> >>),
      Dict(<< <<<<"effort">>, <<"2">>>>, <<<<"Id">>, <<"mine">>>> >>),
      Dict(<< <<<<"ID">>, <<"mine">>>>, <<<<"id">>, <<"other">>>> >>) }

\* Requests that vary the heading line and the property drawer
DrawerRequests ==
    { [BaseRequest EXCEPT !.properties = p, !.heading = h,
                          !.priority = pt[1], !.tags = pt[2]] :
        p \in PropertyMaps, h \in {<<>>, HeadingH, HeadingColon},
        pt \in { <<<<>>, <<>>>>, <<<<"A">>, << <<"home">>, <<"bills">> >> >> } }

RenderRequests == TimeRequests \cup DrawerRequests

-----------------------------------------------------------------------------
(* create_todo, the request handler of main.py                             *)

\* What the log holds for a request: the response (status, id and the
\* request's property map as the response repeats it), whether and how the
\* core ran (its branch, find_heading_insertion_point's result, the text
\* it returned) and the file as it was before.
NoCall ==
    [status |-> 0, raised |-> 0, core_called |-> FALSE, mode |-> "none",
     req |-> BaseRequest, before_exists |-> FALSE, before |-> <<>>,
     result |-> [found |-> FALSE, index |-> 0, level |-> 0],
     todo_text |-> <<>>, id |-> <<>>, properties |-> NoProperties]

calls == Len(log)

last == IF log = <<>> THEN NoCall ELSE log[Len(log)]

\* Two calls of append_todo_to_file running at once, in two server
\* processes or threads: nothing in lines 273-381 takes a lock.
Procs == {1, 2}

\* A call that has not read the file yet
NotStarted ==
    [pc |-> "start", req |-> BaseRequest, lines |-> <<>>,
     result |-> [found |-> FALSE, index |-> 0, level |-> 0],
     generated_uuid |-> <<>>, alone |-> TRUE]

\* Lines 198-199: the except clause catches every Exception raised in the
\* try block, HTTPException included, and raises a 500 in its place.
ExceptClause(raised) == IF raised # 0 THEN 500 ELSE 200

\* Lines 147-151: the directory check raises 404 inside the try block
DirectoryCheck(exists) == IF exists THEN 0 ELSE 404

Init ==
    /\ dir_exists \in BOOLEAN
    /\ file_exists \in BOOLEAN
    /\ (~dir_exists => ~file_exists)
    /\ content \in InitialContents
    /\ (~file_exists => content = <<>>)
    /\ log = <<>>
    /\ inflight = [p \in Procs |-> NotStarted]

\* The request is refused before the core is invoked.
RejectMissingDir(req, limit) ==
    /\ calls < limit
    /\ DirectoryCheck(dir_exists) # 0
    /\ log' = Append(log,
                 [NoCall EXCEPT !.raised = DirectoryCheck(dir_exists),
                                !.status = ExceptClause(DirectoryCheck(dir_exists)),
                                !.req = req, !.before_exists = file_exists,
                                !.before = content,
                                !.properties = req.properties])
    /\ UNCHANGED <<dir_exists, file_exists, content, inflight>>

\* Lines 154-196: the core has returned r and the response is built from
\* the request's fields, the property map among them.
Respond(req, mode, r) ==
    /\ r.file.mode = mode
    /\ content' = r.file.content
    /\ file_exists' = TRUE
    /\ log' = Append(log,
                 [status |-> ExceptClause(0), raised |-> 0,
                  core_called |-> TRUE, mode |-> mode, req |-> req,
                  before_exists |-> file_exists, before |-> content,
                  result |-> r.file.result,
                  todo_text |-> r.todo_text, id |-> r.generated_uuid,
                  properties |-> r.properties])
    /\ UNCHANGED <<dir_exists, inflight>>

\* Lines 147-172: the directory is there and the core is invoked
Invoke(limit) == calls < limit /\ DirectoryCheck(dir_exists) = 0

\* The request is served by the plain append of lines 383-411.
PlainAppend(req, limit) ==
    /\ Invoke(limit)
    /\ Respond(req, "plain",
               append_todo_to_file(file_exists, content, req, FreshUuid(calls)))

\* The request is served by the insertion of lines 284-354.
FileUnderHeading(req, limit) ==
    /\ Invoke(limit)
    /\ Respond(req, "found",
               append_todo_to_file(file_exists, content, req, FreshUuid(calls)))

\* The request is served by the heading creation of lines 355-381.
CreateHeading(req, limit) ==
    /\ Invoke(limit)
    /\ Respond(req, "created",
               append_todo_to_file(file_exists, content, req, FreshUuid(calls)))

\* One request to POST /todos, at most `limit` of them in a run
create_todo(req, limit) ==
    \/ RejectMissingDir(req, limit)
    \/ PlainAppend(req, limit)
    \/ FileUnderHeading(req, limit)
    \/ CreateHeading(req, limit)

Next == \E req \in FileRequests : create_todo(req, MaxCalls)

Spec == Init /\ [][Next]_vars

\* Lines 273-282: a call with a heading reads the whole file and searches
\* the lines it read. `alone` records that no other call stood between its
\* read and its write at that moment.
ReadFile(p, req) ==
    /\ inflight[p].pc = "start"
    /\ DirectoryCheck(dir_exists) = 0
    /\ inflight' = [inflight EXCEPT ![p] =
           [pc |-> "read", req |-> req,
            lines |-> IF file_exists THEN ReadLines(content) ELSE <<>>,
            result |-> find_heading_insertion_point(
                           IF file_exists THEN ReadLines(content) ELSE <<>>,
                           req.heading),
            generated_uuid |-> <<Uuids[p]>>,
            alone |-> \A q \in Procs \ {p} : inflight[q].pc # "read"]]
    /\ UNCHANGED <<dir_exists, file_exists, content, log>>

\* Lines 352-354 and 379-381, then main.py 174-196: the call writes and
\* the response is built. `filed` is the file as the call leaves it.
WriteBack(p, call, filed) ==
    /\ content' = filed.content
    /\ file_exists' = TRUE
    /\ inflight' = [inflight EXCEPT ![p].pc = "done"]
    /\ log' = Append(log,
                 [status |-> ExceptClause(0), raised |-> 0,
                  core_called |-> TRUE, mode |-> filed.mode,
                  req |-> call.req, before_exists |-> file_exists,
                  before |-> content, result |-> call.result,
                  todo_text |-> EntryText(<<STAR>>, call.req,
                                          call.generated_uuid),
                  id |-> call.generated_uuid,
                  properties |-> CallerProperties(call.req.properties,
                                                  call.generated_uuid)])
    /\ UNCHANGED dir_exists

\* Lines 284-354: the heading was among the lines read; the file is opened
\* with "w" and the lines read, with the entry spliced in, replace it.
RewriteFile(p) ==
    /\ inflight[p].pc = "read"
    /\ inflight[p].result.found
    /\ WriteBack(p, inflight[p],
                 Filed(inflight[p].lines, inflight[p].result, content,
                       inflight[p].req, inflight[p].generated_uuid))

\* Lines 355-381: the heading was not among the lines read; the file is
\* opened with "a" and the new block lands after what the file holds now.
AppendHeading(p) ==
    /\ inflight[p].pc = "read"
    /\ ~inflight[p].result.found
    /\ WriteBack(p, inflight[p],
                 Filed(inflight[p].lines, inflight[p].result, content,
                       inflight[p].req, inflight[p].generated_uuid))

\* The files and the requests of the concurrent calls
RaceContents ==
    { <<>>,
      OldEntry \o <<NL>>,
      <<STAR, SP>> \o HeadingH \o <<NL>>,
      <<STAR, SP>> \o HeadingH \o <<NL, NL, NL, STAR, SP, "Other", NL>> }

RaceRequests ==
    { [BaseRequest EXCEPT !.heading = h] : h \in {HeadingH, HeadingColon} }

InitRace == Init /\ dir_exists /\ content \in RaceContents

NextRace ==
    \E p \in Procs :
        \/ \E req \in RaceRequests : ReadFile(p, req)
        \/ RewriteFile(p)
        \/ AppendHeading(p)

SpecRace == InitRace /\ [][NextRace]_vars

\* The rendering requests are checked on fewer files.
RenderContents ==
    { <<>>, OldEntry \o <<NL>>, <<STAR, SP>> \o HeadingH \o <<NL>> }

InitRender == Init /\ content \in RenderContents

NextRender == \E req \in RenderRequests : create_todo(req, MaxRenderCalls)

SpecRender == InitRender /\ [][NextRender]_vars

-----------------------------------------------------------------------------
(* Properties                                                              *)

IsBlank(line) == Strip(line) = <<>>

\* The number of blank lines at the end of a list of lines
RECURSIVE TrailingBlanks(_)
TrailingBlanks(lines) ==
    IF lines # <<>> /\ IsBlank(lines[Len(lines)])
    THEN 1 + TrailingBlanks(SubSeq(lines, 1, Len(lines) - 1))
    ELSE 0

\* A heading's level: the count of its leading nesting markers
LeadingStars(line) == Len(line) - Len(LStripStars(line))

\* How many lines of a text are `line`, and how many start with `prefix`
LinesEqual(lines, line) == Cardinality({i \in DOMAIN lines : lines[i] = line})

LineCount(text, line) == LinesEqual(ReadLines(text), line)

LinesStarting(lines, prefix) ==
    Cardinality({i \in DOMAIN lines : StartsWith(lines[i], prefix)})

PrefixCount(text, prefix) == LinesStarting(ReadLines(text), prefix)

\* `block` stands in `text` as whole lines
HoldsBlock(text, block) ==
    \E k \in 0..(Len(text) - Len(block)) :
        /\ SubSeq(text, k + 1, k + Len(block)) = block
        /\ (k = 0 \/ text[k] = NL)

\* What the last call put after the text the file held before
Appended == SubSeq(content, Len(last.before) + 1, Len(content))

\* The first line, top to bottom, that the search takes for the target
FirstMatch(lines, target) ==
    CHOOSE i \in 1..Len(lines) :
        /\ LineMatches(Strip(lines[i]), Strip(target))
        /\ \A j \in 1..(i - 1) : ~LineMatches(Strip(lines[j]), Strip(target))

Min(S) == CHOOSE x \in S : \A y \in S : x <= y

\* C1: after a plain append the file ends with the entry and a newline, and
\* when non-blank content precedes the entry, exactly one blank line lies
\* between that content and the entry.
C1_BeforeEntry == SubSeq(content, 1, Len(content) - Len(last.todo_text) - 1)

C1_PlainAppendOneBlankLine ==
    last.mode = "plain" =>
        /\ EndsWith(content, last.todo_text \o <<NL>>)
        /\ (Strip(C1_BeforeEntry) # <<>> =>
                /\ EndsWith(C1_BeforeEntry, <<NL>>)
                /\ TrailingBlanks(ReadLines(C1_BeforeEntry)) = 1)

\* C2: when a call created the heading and the next call names the same
\* heading, the file then holds exactly one "* <heading>" line and two more
\* level-2 entries than before the first of the two calls.
C2_Level2Lines(lines, state) ==
    Cardinality({i \in DOMAIN lines :
        /\ LeadingStars(lines[i]) = 2
        /\ StartsWith(lines[i], <<STAR, STAR, SP>> \o state)})

C2_Level2Entries(text, state) == C2_Level2Lines(ReadLines(text), state)

C2_HeadingCreatedOnce ==
    \A i \in 1..(Len(log) - 1) :
        ( /\ i + 1 = Len(log)
          /\ log[i].mode = "created"
          /\ log[i + 1].core_called
          /\ log[i + 1].req.heading = log[i].req.heading )
        => /\ LineCount(content, <<STAR, SP>> \o log[i].req.heading \o <<NL>>) = 1
           /\ C2_Level2Entries(content, log[i].req.state)
                = C2_Level2Entries(log[i].before, log[i].req.state) + 2

\* C3: filing under a found heading with N leading markers adds one line
\* that is the entry's first line with N+1 leading markers.
C3_ExpectedLine ==
    LET lines == ReadLines(last.before)
        i == FirstMatch(lines, last.req.heading)
    IN  Stars(LeadingStars(Strip(lines[i])))
        \o SplitNL(last.todo_text)[1] \o <<NL>>

C3_ChildOneLevelDeeper ==
    last.mode = "found" =>
        LineCount(content, C3_ExpectedLine)
            = LineCount(last.before, C3_ExpectedLine) + 1

\* C4 as stated: when the heading is not found, what is written holds no
\* :PROPERTIES: line, no :ID: line and no :END: line.
C4_NoDrawerWhenCreated ==
    last.mode = "created" =>
        /\ LineCount(Appended, <<COLON, "PROPERTIES", COLON, NL>>) = 0
        /\ PrefixCount(Appended, <<COLON, "ID", COLON>>) = 0
        /\ LineCount(Appended, <<COLON, "END", COLON, NL>>) = 0

\* C4 as amended: when the heading is not found, what is appended is a blank
\* line, the "* <heading>" line, a blank line, the level-2 entry line, the
\* scheduling line if the request has a date, and then the property drawer:
\* a :PROPERTIES: line, property lines of which exactly one is an :ID: line,
\* and an :END: line; the body, if any, follows a blank line.
C4_DrawerWhenCreated ==
    last.mode = "created" =>
        LET L == ReadLines(Appended)
            dated == last.req.scheduled # <<>> \/ last.req.deadline # <<>>
            p == IF dated THEN 6 ELSE 5
        IN  /\ StartsWith(content, last.before)
            /\ Len(L) > p
            /\ L[1] = <<NL>>
            /\ L[2] = <<STAR, SP>> \o last.req.heading \o <<NL>>
            /\ L[3] = <<NL>>
            /\ StartsWith(L[4], <<STAR, STAR, SP>> \o last.req.state)
            /\ dated => \/ StartsWith(L[5], <<"SCHEDULED", COLON>>)
                        \/ StartsWith(L[5], <<"DEADLINE", COLON>>)
            /\ L[p] = <<COLON, "PROPERTIES", COLON, NL>>
            /\ \E e \in (p + 1)..Len(L) :
                /\ L[e] = <<COLON, "END", COLON, NL>>
                /\ \A k \in (p + 1)..(e - 1) : StartsWith(L[k], <<COLON>>)
                /\ Cardinality({k \in (p + 1)..(e - 1) :
                        StartsWith(L[k], <<COLON, "ID", COLON, SP>>)}) = 1
                /\ IF last.req.body = <<>> THEN e = Len(L)
                   ELSE /\ L[e + 1] = <<NL>>
                        /\ WriteLines(SubSeq(L, e + 2, Len(L)))
                             = Strip(last.req.body) \o <<NL>>

C4_Witness ==
    /\ last.mode = "created"
    /\ last.req.properties.items # <<>>
    /\ LineCount(Appended, <<COLON, "ID", COLON, SP>> \o last.id \o <<NL>>) = 1

\* C5: the text a successful call returns stands in the file as whole
\* lines, in every mode.
C5_ReturnsWrittenBlock ==
    last.core_called => HoldsBlock(content, last.todo_text \o <<NL>>)

\* C6: a successful call adds exactly one :ID: line, its value is the
\* identifier returned, and every key of a drawer line is in upper case.
C6_KeysOf(lines) ==
    {lines[i][2] : i \in
        {k \in DOMAIN lines :
            /\ Len(lines[k]) >= 3
            /\ lines[k][1] = COLON
            /\ lines[k][3] = COLON}}

C6_DrawerKeys == C6_KeysOf(ReadLines(Appended))

C6_DrawerHasGeneratedId ==
    (last.core_called /\ last.mode # "found") =>
        /\ PrefixCount(Appended, <<COLON, "ID", COLON>>) = 1
        /\ LineCount(Appended, <<COLON, "ID", COLON, SP>> \o last.id \o <<NL>>) = 1
        /\ \A key \in C6_DrawerKeys : Upper(key) = key

\* C7: with recurrence configured (is_recurring and all three of
\* repeat_every, repeat_unit and repeat_type given), the scheduling line
\* written is the plain timestamps of the dates given, with the repeat
\* suffix inside the timestamp of the field recurring_field names and inside
\* no other.
C7_Configured(req) ==
    /\ req.is_recurring
    /\ req.repeat_every # 0 /\ req.repeat_unit # "" /\ req.repeat_type # ""
    /\ req.recurring_field \in {"scheduled", "deadline"}
    /\ (req.scheduled # <<>> \/ req.deadline # <<>>)

C7_Timestamp(req, field, iso, include_time) ==
    LET dt == ParseIso(iso)
    IN  <<"<", dt.date>>
        \o (IF include_time THEN <<SP, dt.hour, COLON, dt.minute>> ELSE <<>>)
        \o (IF req.recurring_field = field
            THEN <<SP>> \o build_repeat_suffix(req.repeat_every,
                               req.repeat_unit, req.repeat_type)
            ELSE <<>>)
        \o <<">">>

C7_ExpectedLine(req) ==
    (IF req.scheduled # <<>>
     THEN <<"SCHEDULED", COLON, SP>>
          \o C7_Timestamp(req, "scheduled", req.scheduled,
                          req.include_scheduled_time)
     ELSE <<>>)
    \o (IF req.scheduled # <<>> /\ req.deadline # <<>> THEN <<SP>> ELSE <<>>)
    \o (IF req.deadline # <<>>
        THEN <<"DEADLINE", COLON, SP>>
             \o C7_Timestamp(req, "deadline", req.deadline,
                             req.include_deadline_time)
        ELSE <<>>)
    \o <<NL>>

C7_DatedLines(text) ==
    PrefixCount(text, <<"SCHEDULED", COLON>>)
    + PrefixCount(text, <<"DEADLINE", COLON>>)

C7_RecurrenceOnNamedFieldOnly ==
    (last.core_called /\ C7_Configured(last.req)) =>
        /\ LineCount(content, C7_ExpectedLine(last.req))
             = LineCount(last.before, C7_ExpectedLine(last.req)) + 1
        /\ C7_DatedLines(content) = C7_DatedLines(last.before) + 1

C7_Witness ==
    /\ last.core_called /\ C7_Configured(last.req)
    /\ last.req.recurring_field = "deadline"
    /\ last.req.scheduled # <<>> /\ last.req.deadline # <<>>
    /\ LineCount(content,
          <<"SCHEDULED", COLON, SP, "<", "2025-01-20", SP, "14", COLON, "30",
            ">", SP, "DEADLINE", COLON, SP, "<", "2025-02-03", SP, ".", "+",
            "2", "w", ">", NL>>) = 1

\* C8: a request made while the org directory is missing is answered 404,
\* the core is not invoked and no file appears.
C8_MissingDirIs404 ==
    (last.status # 0 /\ ~dir_exists) =>
        /\ last.status = 404
        /\ ~last.core_called
        /\ ~file_exists

\* C9: the property map the caller passed holds the same keys and values
\* after the call.
C9_CallerMapUnchanged ==
    last.core_called => last.properties = last.req.properties

\* C10: the insertion index returned for a found heading is the index of
\* the first later heading line with at most as many leading markers as the
\* matched line, or the number of lines when there is none.
C10_ClaimedIndex(lines, i) ==
    LET later == {j \in (i + 1)..Len(lines) :
                    /\ StartsWith(Strip(lines[j]), <<STAR>>)
                    /\ LeadingStars(Strip(lines[j]))
                         <= LeadingStars(Strip(lines[i]))}
    IN  IF later = {} THEN Len(lines) ELSE Min(later) - 1

C10_InsertionIndex ==
    last.mode = "found" =>
        last.result.index
            = C10_ClaimedIndex(ReadLines(last.before),
                               FirstMatch(ReadLines(last.before),
                                          last.req.heading))

\* The lines of the file that hold the entry of the last call: from the
\* place of its :ID: line, which is line `at` of the text returned
C11_IdLine == <<COLON, "ID", COLON, SP>> \o last.id

C11_IndexOf(lines, line) == CHOOSE i \in DOMAIN lines : lines[i] = line

C11_First ==
    C11_IndexOf(ReadLines(content), C11_IdLine \o <<NL>>)
    - C11_IndexOf(SplitNL(last.todo_text), C11_IdLine) + 1

C11_Last == C11_First + Len(SplitNL(last.todo_text)) - 1

C11_BlanksBefore(lines, first) == TrailingBlanks(SubSeq(lines, 1, first - 1))

RECURSIVE C11_LeadingBlanks(_)
C11_LeadingBlanks(lines) ==
    IF lines # <<>> /\ IsBlank(Head(lines))
    THEN 1 + C11_LeadingBlanks(Tail(lines))
    ELSE 0

C11_BlanksAfter(lines, lastline) ==
    C11_LeadingBlanks(SubSeq(lines, lastline + 1, Len(lines)))

\* C11: after filing under a found heading, exactly one blank line stands
\* immediately before the entry's lines and exactly one immediately after.
C11_OneBlankAround ==
    last.mode = "found" =>
        /\ LineCount(content, C11_IdLine \o <<NL>>) = 1
        /\ C11_BlanksBefore(ReadLines(content), C11_First) = 1
        /\ C11_BlanksAfter(ReadLines(content), C11_Last) = 1

\* The "* <heading>" line of a created heading stands two lines above the
\* entry's first line.
C12_HeadingAt == C11_First - 2

\* C12: after a heading was created, its line is the "* <heading>" line and,
\* when the file held a non-blank line before, exactly one blank line lies
\* between the last of them and that heading line.
C12_OneBlankBeforeNewHeading ==
    last.mode = "created" =>
        /\ LineCount(content, C11_IdLine \o <<NL>>) = 1
        /\ C12_HeadingAt >= 1
        /\ ReadLines(content)[C12_HeadingAt]
             = <<STAR, SP>> \o last.req.heading \o <<NL>>
        /\ (Strip(last.before) # <<>> =>
               C11_BlanksBefore(ReadLines(content), C12_HeadingAt) = 1)

\* The entry of call p, known by the ID line of its drawer, is in the file
C13_EntryIn(p) ==
    LineCount(content,
              <<COLON, "ID", COLON, SP>> \o inflight[p].generated_uuid
              \o <<NL>>) = 1

C13_AllDone == \A p \in Procs : inflight[p].pc = "done"

\* No call read the file while another stood between its read and its write
C13_Sequential == \A p \in Procs : inflight[p].alone

\* C13: when the two heading-mode calls ran one after the other, the file
\* holds the entries of both once both have written.
C13_SequentialKeepsBoth ==
    (C13_AllDone /\ C13_Sequential) => \A p \in Procs : C13_EntryIn(p)

\* Both calls have written and the entry of one of them is not in the file
C13_LostUpdate ==
    C13_AllDone /\ \E p \in Procs : ~C13_EntryIn(p)

\* A line's text: the line without its line end
C14_Text(line) ==
    IF line # <<>> /\ line[Len(line)] = NL
    THEN SubSeq(line, 1, Len(line) - 1) ELSE line

\* The texts of the non-blank lines, top to bottom
RECURSIVE C14_NonBlank(_)
C14_NonBlank(lines) ==
    IF lines = <<>> THEN <<>>
    ELSE (IF IsBlank(Head(lines)) THEN <<>> ELSE <<C14_Text(Head(lines))>>)
         \o C14_NonBlank(Tail(lines))

\* `a` is what is left of `b` after taking elements out
RECURSIVE C14_IsSubsequence(_, _)
C14_IsSubsequence(a, b) ==
    IF a = <<>> THEN TRUE
    ELSE IF b = <<>> THEN FALSE
    ELSE IF Head(a) = Head(b) THEN C14_IsSubsequence(Tail(a), Tail(b))
    ELSE C14_IsSubsequence(a, Tail(b))

\* C14: a successful call only adds lines: the non-blank lines the file held
\* before the call are all in the file afterwards, with the same text and in
\* the same order.
C14_OnlyAddsLines ==
    (last.core_called /\ last.status = 200) =>
        /\ C14_IsSubsequence(C14_NonBlank(ReadLines(last.before)),
                             C14_NonBlank(ReadLines(content)))
        /\ Len(C14_NonBlank(ReadLines(content)))
             > Len(C14_NonBlank(ReadLines(last.before)))

\* A second call has filed its entry above a non-blank line of the file
C14_Witness ==
    /\ Len(log) = 2
    /\ last.mode = "found"
    /\ last.status = 200
    /\ C14_NonBlank(SubSeq(ReadLines(last.before), last.result.index + 1,
                           Len(ReadLines(last.before)))) # <<>>
    /\ content # last.before

====
